---- MODULE Spec2Model ----
(***************************************************************************)
(* The retrieval pipeline of the Simple RAG system: SimpleRAG (rag_app.py) *)
(* with its persistent collection, the embedding and chat collaborators,   *)
(* and the document records produced by DocProcessor (doc_processing.py).  *)
(*                                                                         *)
(* Strings that the program cuts, joins or formats are sequences of        *)
(* tokens, joined with \o; identifiers built by f-strings are TLA+ strings *)
(* built with \o and ToString.  A Python dict is a function whose DOMAIN   *)
(* is its key set.                                                         *)
(***************************************************************************)
EXTENDS Integers, Sequences, FiniteSets, TLC

VARIABLES
    entries,    \* the entries persisted in the collection "rag_documents", in insertion order
    collUid,    \* identity of the collection the database holds under that name; 0: none
    handle,     \* identity of the collection that rag.collection refers to; 0: no SimpleRAG object
    last,       \* the last call: its operation, arguments, outcome and collaborator calls
    run         \* the program that runs: which one, where it is, its local variables and input

vars == <<entries, collUid, handle, last, run>>

----------------------------------------------------------------------------
(* Bounds of the model *)

\* the collection holds at most MaxDocs entries
MaxDocs == 2
\* one add_documents call carries at most MaxBatch documents
MaxBatch == 2
\* n_results ranges over 0..MaxK
MaxK == 3
\* the longest text given to the text splitter
MaxTextLen == 5
\* the largest chunk_size of a DocProcessor
MaxChunkSize == 3
\* the most programs run one after the other
MaxRuns == 2
\* the most lines a user types in one session
MaxInputs == 2

----------------------------------------------------------------------------
(* Values *)

Min(a, b) == IF a < b THEN a ELSE b

Range(s) == {s[i] : i \in DOMAIN s}

\* {} and dict.get(key, default)
EmptyDict == [k \in {} |-> ""]

DictGet(d, key, default) == IF key \in DOMAIN d THEN d[key] ELSE default

\* "\n\n".join(parts)
RECURSIVE Join(_, _)
Join(parts, sep) ==
    IF Len(parts) = 0 THEN <<>>
    ELSE IF Len(parts) = 1 THEN parts[1]
    ELSE parts[1] \o sep \o Join(Tail(parts), sep)

\* s occurs in t starting at position i
OccursAt(s, t, i) == /\ i >= 1
                     /\ i + Len(s) - 1 <= Len(t)
                     /\ SubSeq(t, i, i + Len(s) - 1) = s

----------------------------------------------------------------------------
(* The embedding collaborator: deterministic in the text (spec section 6). *)
(* A vector is one coordinate; the index's distance is squared L2.         *)

TokenWeight(c) == CASE c = "x" -> 1
                    [] c = "y" -> 3
                    [] c = "z" -> 2
                    [] OTHER   -> 0

RECURSIVE Embed(_)
Embed(text) == IF Len(text) = 0 THEN 0 ELSE TokenWeight(Head(text)) + Embed(Tail(text))

Distance(a, b) == (a - b) * (a - b)

\* SimpleRAG.create_embedding: the collaborator's failure is logged and re-raised
create_embedding(text, fails) ==
    [ok |-> ~fails, ret |-> Embed(text)]

----------------------------------------------------------------------------
(* The collection backend *)

EntryIds(ents) == {ents[i].id : i \in DOMAIN ents}

\* a collection created after one of identity uid gets another identity
FreshUid(uid) == IF uid = 1 THEN 2 ELSE 1

\* collection.add refuses an empty batch and a batch that repeats an id
AddValid(ids) == /\ Len(ids) > 0
                 /\ \A i, j \in DOMAIN ids : i # j => ids[i] # ids[j]

\* collection.add(documents, embeddings, metadatas, ids): the records are inserted in
\* order; a record whose id the collection already holds is skipped
RECURSIVE CollectionAdd(_, _, _, _, _)
CollectionAdd(ents, texts, embeddings, metadatas, ids) ==
    IF Len(ids) = 0 THEN ents
    ELSE LET e == [id |-> Head(ids), text |-> Head(texts),
                   metadata |-> Head(metadatas), embedding |-> Head(embeddings)]
             next == IF e.id \in EntryIds(ents) THEN ents ELSE Append(ents, e)
         IN CollectionAdd(next, Tail(texts), Tail(embeddings), Tail(metadatas), Tail(ids))

\* the orders in which the index may return the n nearest entries: nearest first,
\* entries at the same distance in either order
NearestOrders(ents, query_embedding, n) ==
    LET dist(i) == Distance(ents[i].embedding, query_embedding)
    IN {s \in [1..n -> DOMAIN ents] :
          /\ \A i, j \in 1..n : i # j => s[i] # s[j]
          /\ \A i, j \in 1..n : i < j => dist(s[i]) <= dist(s[j])
          /\ \A i \in 1..n : \A e \in DOMAIN ents \ Range(s) : dist(s[i]) <= dist(e)}

\* collection.query(query_embeddings=[q], n_results=n): the answers the index may give;
\* more results asked for than entries held gives them all
CollectionQuery(ents, query_embedding, n_results) ==
    LET n == Min(n_results, Len(ents))
    IN {[ids       |-> [i \in 1..n |-> ents[s[i]].id],
         documents |-> [i \in 1..n |-> ents[s[i]].text],
         metadatas |-> [i \in 1..n |-> ents[s[i]].metadata],
         distances |-> [i \in 1..n |-> Distance(ents[s[i]].embedding, query_embedding)]]
        : s \in NearestOrders(ents, query_embedding, n)}

----------------------------------------------------------------------------
(* SimpleRAG *)

\* nothing returned
NoRet == <<>>

\* one call of a collaborator: what was called, with what, whether it returned, and what
Call(fn, arg, ok, ret) == [fn |-> fn, arg |-> arg, ok |-> ok, ret |-> ret]

\* f"doc_{i}"
FormatId(stem, i) == stem \o "_" \o ToString(i)

\* SimpleRAG.__init__: get the collection, and on any exception create it.
\* getFails, createFails: the backend fails the call for a reason of its own.
rag_init(ents, uid, old, getFails, createFails) ==
    LET getOk    == uid # 0 /\ ~getFails
        createOk == uid = 0 /\ ~createFails
        getCall  == Call("get_collection", IF uid = 0 THEN "absent" ELSE "present", getOk, NoRet)
    IN IF getOk
       THEN [ok |-> TRUE, entries |-> ents, collUid |-> uid, handle |-> uid,
             calls |-> <<getCall>>]
       ELSE IF createOk
       THEN [ok |-> TRUE, entries |-> <<>>, collUid |-> FreshUid(old),
             handle |-> FreshUid(old),
             calls |-> <<getCall, Call("create_collection", <<>>, TRUE, NoRet)>>]
       ELSE [ok |-> FALSE, entries |-> ents, collUid |-> uid, handle |-> 0,
             calls |-> <<getCall, Call("create_collection", <<>>, FALSE, NoRet)>>]

\* doc_id = doc.get('id', f"doc_{i}"), i counting from 0
DocId(documents, i) == DictGet(documents[i], "id", FormatId("doc", i - 1))

\* add_documents with collection.add moved into the loop: every document is persisted as
\* soon as it is embedded
add_documents_partial(ents, live, documents, fail) ==
    LET n         == Len(documents)
        embFailed == fail \in 1..n
        made      == IF embFailed THEN fail - 1 ELSE n
        done      == [i \in 1..made |-> documents[i]]
        texts     == [i \in 1..made |-> done[i].text]
        metadatas == [i \in 1..made |-> DictGet(done[i], "metadata", EmptyDict)]
        ids       == [i \in 1..made |-> DocId(documents, i)]
        embCalls  == [i \in 1..(IF embFailed THEN fail ELSE n) |->
                         Call("embed", documents[i].text, i # fail,
                              IF i # fail THEN Embed(documents[i].text) ELSE NoRet)]
        addOk     == live /\ fail # n + 1 /\ (made = 0 \/ AddValid(ids))
        stored    == IF addOk
                     THEN CollectionAdd(ents, texts, [i \in 1..made |-> Embed(texts[i])],
                                        metadatas, ids)
                     ELSE ents
    IN [ok |-> ~embFailed /\ addOk, entries |-> stored,
        calls |-> IF embFailed THEN embCalls
                  ELSE Append(embCalls, Call("add", ids, addOk, NoRet))]

\* add_documents whose except clause logs the error and does not raise it again
add_documents_swallow(ents, live, documents, fail) ==
    LET n     == Len(documents)
        ids   == [i \in 1..n |-> DocId(documents, i)]
        addOk == live /\ fail = 0 /\ AddValid(ids)
    IN [ok |-> TRUE,
        entries |-> IF addOk
                    THEN CollectionAdd(ents, [i \in 1..n |-> documents[i].text],
                                       [i \in 1..n |-> Embed(documents[i].text)],
                                       [i \in 1..n |-> DictGet(documents[i], "metadata",
                                                               EmptyDict)], ids)
                    ELSE ents,
        calls |-> <<Call("add", ids, addOk, NoRet)>>]

\* SimpleRAG.add_documents.  live: rag.collection is the collection the database holds.
\* fail: which collaborator call fails for a reason of its own (0: none; i in 1..n: the
\* embedding of document i; n+1: collection.add).
\* add_documents that hands collection.add the embeddings in the opposite order
add_documents_reversed_embeddings(ents, live, documents, fail) ==
    LET n          == Len(documents)
        texts      == [i \in 1..n |-> documents[i].text]
        metadatas  == [i \in 1..n |-> DictGet(documents[i], "metadata", EmptyDict)]
        ids        == [i \in 1..n |-> DocId(documents, i)]
        embFailed  == fail \in 1..n
        made       == IF embFailed THEN fail ELSE n
        embs       == [i \in 1..made |-> create_embedding(texts[i], i = fail)]
        embCalls   == [i \in 1..made |->
                          Call("embed", texts[i], embs[i].ok,
                               IF embs[i].ok THEN embs[i].ret ELSE NoRet)]
        embeddings == [i \in 1..n |-> embs[n + 1 - i].ret]
        addOk      == live /\ fail # n + 1 /\ AddValid(ids)
    IN IF embFailed
       THEN [ok |-> FALSE, entries |-> ents, calls |-> embCalls]
       ELSE [ok |-> addOk,
             entries |-> IF addOk
                         THEN CollectionAdd(ents, texts, embeddings, metadatas, ids)
                         ELSE ents,
             calls |-> Append(embCalls, Call("add", ids, addOk, NoRet))]

add_documents(ents, live, documents, fail) ==
    LET n          == Len(documents)
        texts      == [i \in 1..n |-> documents[i].text]
        metadatas  == [i \in 1..n |-> DictGet(documents[i], "metadata", EmptyDict)]
        ids        == [i \in 1..n |-> DocId(documents, i)]
        embFailed  == fail \in 1..n
        made       == IF embFailed THEN fail ELSE n
        embs       == [i \in 1..made |-> create_embedding(texts[i], i = fail)]
        embCalls   == [i \in 1..made |->
                          Call("embed", texts[i], embs[i].ok,
                               IF embs[i].ok THEN embs[i].ret ELSE NoRet)]
        embeddings == [i \in 1..n |-> embs[i].ret]
        addOk      == live /\ fail # n + 1 /\ AddValid(ids)
    IN IF embFailed
       THEN [ok |-> FALSE, entries |-> ents, calls |-> embCalls]
       ELSE [ok |-> addOk,
             entries |-> IF addOk
                         THEN CollectionAdd(ents, texts, embeddings, metadatas, ids)
                         ELSE ents,
             calls |-> Append(embCalls, Call("add", ids, addOk, NoRet))]

\* search_documents whose formatting loop starts at the second result
search_documents_skip_first(ents, live, query, n_results, fail, results) ==
    LET ok == fail = 0 /\ live /\ n_results > 0
    IN [ok |-> ok,
        ret |-> IF ok
                THEN [i \in 1..(Len(results.documents) - 1) |->
                         [text     |-> results.documents[i + 1],
                          metadata |-> results.metadatas[i + 1],
                          distance |-> results.distances[i + 1],
                          id       |-> results.ids[i + 1]]]
                ELSE NoRet,
        calls |-> <<Call("embed", query, fail # 1, NoRet),
                    Call("query", n_results, ok, results)>>]

\* SimpleRAG.search_documents.  fail: 0: none; 1: the embedding; 2: collection.query.
\* results: the answer of the index, one of CollectionQuery.
search_documents(ents, live, query, n_results, fail, results) ==
    LET emb     == create_embedding(query, fail = 1)
        embCall == Call("embed", query, emb.ok, IF emb.ok THEN emb.ret ELSE NoRet)
        nnOk    == live /\ fail # 2 /\ n_results > 0
        search_results ==
            [i \in 1..Len(results.documents) |->
                [text     |-> results.documents[i],
                 metadata |-> results.metadatas[i],
                 distance |-> results.distances[i],
                 id       |-> results.ids[i]]]
    IN IF ~emb.ok
       THEN [ok |-> FALSE, ret |-> NoRet, calls |-> <<embCall>>]
       ELSE IF ~nnOk
       THEN [ok |-> FALSE, ret |-> NoRet,
             calls |-> <<embCall, Call("query", n_results, FALSE, NoRet)>>]
       ELSE [ok |-> TRUE, ret |-> search_results,
             calls |-> <<embCall, Call("query", n_results, TRUE, results)>>]

\* the fixed parts of the prompt and the system message
PromptHead == <<"Based on the following context, please answer the question.", "\n", "\n",
                "Context:", "\n">>

QuestionLabel == <<"\n", "\n", "Question: ">>

AnswerLabel == <<"\n", "\n", "Answer:">>

SystemInstruction ==
    <<"You are a helpful assistant. Answer questions based on the provided context. If the context doesn't contain relevant information, say so clearly.">>

ContextDelimiter == <<"\n", "\n">>

\* generate_response that joins the texts last document first
generate_response_reversed(query, context_docs, fails, answer) ==
    LET n        == Len(context_docs)
        context  == Join([i \in 1..n |-> context_docs[n + 1 - i].text], ContextDelimiter)
        prompt   == PromptHead \o context \o QuestionLabel \o query \o AnswerLabel
        messages == <<[role |-> "system", content |-> SystemInstruction],
                      [role |-> "user", content |-> prompt]>>
    IN [ok |-> ~fails,
        ret |-> IF fails THEN NoRet ELSE answer,
        calls |-> <<Call("chat", messages, ~fails, IF fails THEN NoRet ELSE answer)>>]

\* generate_response that sends the user prompt alone, without the system message
generate_response_no_system(query, context_docs, fails, answer) ==
    LET context  == Join([i \in 1..Len(context_docs) |-> context_docs[i].text],
                         ContextDelimiter)
        prompt   == PromptHead \o context \o QuestionLabel \o query \o AnswerLabel
        messages == <<[role |-> "user", content |-> prompt]>>
    IN [ok |-> ~fails,
        ret |-> IF fails THEN NoRet ELSE answer,
        calls |-> <<Call("chat", messages, ~fails, IF fails THEN NoRet ELSE answer)>>]

\* SimpleRAG.generate_response.  fails: the chat collaborator fails; answer: what it says.
generate_response(query, context_docs, fails, answer) ==
    LET context  == Join([i \in 1..Len(context_docs) |-> context_docs[i].text],
                         ContextDelimiter)
        prompt   == PromptHead \o context \o QuestionLabel \o query \o AnswerLabel
        messages == <<[role |-> "system", content |-> SystemInstruction],
                      [role |-> "user", content |-> prompt]>>
    IN [ok |-> ~fails,
        ret |-> IF fails THEN NoRet ELSE answer,
        calls |-> <<Call("chat", messages, ~fails, IF fails THEN NoRet ELSE answer)>>]

\* query that calls generate_response a second time when the first call fails, and
\* returns the sources with an empty answer when the second fails too
query_retry(ents, live, question, n_results, fail, results, answer) ==
    LET relevant == search_documents(ents, live, question, n_results,
                                     IF fail \in {1, 2} THEN fail ELSE 0, results)
        first    == generate_response(question, relevant.ret, fail = 3, answer)
        second   == generate_response(question, relevant.ret, TRUE, answer)
    IN IF ~relevant.ok
       THEN [ok |-> FALSE, ret |-> NoRet, calls |-> relevant.calls]
       ELSE IF first.ok
       THEN [ok |-> TRUE,
             ret |-> [question |-> question, answer |-> first.ret,
                      sources |-> relevant.ret],
             calls |-> relevant.calls \o first.calls]
       ELSE [ok |-> TRUE,
             ret |-> [question |-> question, answer |-> <<>>, sources |-> relevant.ret],
             calls |-> relevant.calls \o first.calls \o second.calls]

\* SimpleRAG.query.  fail: 0: none; 1: the embedding; 2: collection.query; 3: the chat.
query(ents, live, question, n_results, fail, results, answer) ==
    LET relevant == search_documents(ents, live, question, n_results,
                                     IF fail \in {1, 2} THEN fail ELSE 0, results)
        response == generate_response(question, relevant.ret, fail = 3, answer)
    IN IF ~relevant.ok
       THEN [ok |-> FALSE, ret |-> NoRet, calls |-> relevant.calls]
       ELSE IF ~response.ok
       THEN [ok |-> FALSE, ret |-> NoRet, calls |-> relevant.calls \o response.calls]
       ELSE [ok |-> TRUE,
             ret |-> [question |-> question, answer |-> response.ret,
                      sources |-> relevant.ret],
             calls |-> relevant.calls \o response.calls]

CollectionName == "rag_documents"

\* SimpleRAG.get_collection_info.  fails: collection.count fails for a reason of its own.
get_collection_info(ents, live, fails) ==
    LET countOk == live /\ ~fails
    IN [ok |-> TRUE,
        ret |-> IF countOk
                THEN [collection_name |-> CollectionName, document_count |-> Len(ents)]
                ELSE [error |-> "count failed"],
        calls |-> <<Call("count", <<>>, countOk, IF countOk THEN Len(ents) ELSE NoRet)>>]

\* the clearing without the assignment to rag.collection
clear_no_reassign(ents, uid, h, fail) ==
    LET deleteOk == uid # 0 /\ fail # 1
        createOk == fail # 2
        delCall  == Call("delete_collection", <<>>, deleteOk, NoRet)
    IN IF ~deleteOk
       THEN [ok |-> FALSE, entries |-> ents, collUid |-> uid, handle |-> h,
             calls |-> <<delCall>>]
       ELSE IF ~createOk
       THEN [ok |-> FALSE, entries |-> <<>>, collUid |-> 0, handle |-> h,
             calls |-> <<delCall, Call("create_collection", <<>>, FALSE, NoRet)>>]
       ELSE [ok |-> TRUE, entries |-> <<>>, collUid |-> FreshUid(uid), handle |-> h,
             calls |-> <<delCall, Call("create_collection", <<>>, TRUE, NoRet)>>]

\* the clearing of the collection in main: delete_collection, create_collection, and the
\* new collection assigned to rag.collection.  fail: 0: none; 1: delete_collection;
\* 2: create_collection.
clear(ents, uid, h, fail) ==
    LET deleteOk == uid # 0 /\ fail # 1
        createOk == fail # 2
        delCall  == Call("delete_collection", <<>>, deleteOk, NoRet)
    IN IF ~deleteOk
       THEN [ok |-> FALSE, entries |-> ents, collUid |-> uid, handle |-> h,
             calls |-> <<delCall>>]
       ELSE IF ~createOk
       THEN [ok |-> FALSE, entries |-> <<>>, collUid |-> 0, handle |-> h,
             calls |-> <<delCall, Call("create_collection", <<>>, FALSE, NoRet)>>]
       ELSE [ok |-> TRUE, entries |-> <<>>, collUid |-> FreshUid(uid),
             handle |-> FreshUid(uid),
             calls |-> <<delCall, Call("create_collection", <<>>, TRUE, NoRet)>>]

----------------------------------------------------------------------------
(* DocProcessor (doc_processing.py; DocumentProcessor of document_utils.py is the same) *)

(* self.text_splitter = RecursiveCharacterTextSplitter(chunk_size, chunk_overlap,
   length_function=len): the splitter of langchain_text_splitters with its default
   separators, keep_separator=True and strip_whitespace=True.  A text is a sequence
   of characters.  Every piece the splitter handles is a run of consecutive
   characters of the text, kept here as its place lo..hi in the text. *)

\* the characters str.strip() removes
Whitespace == {" ", "\n", "\t"}

\* the default separators ["\n\n", "\n", " ", ""]
Separators == << <<"\n", "\n">>, <<"\n">>, <<" ">>, <<>> >>

Piece(lo, hi) == [lo |-> lo, hi |-> hi]

\* length_function=len
PieceLen(p) == p.hi - p.lo + 1

PieceText(text, p) == SubSeq(text, p.lo, p.hi)

\* re.search(separator, text[p..hi]): the place of the leftmost match, 0 when none
FindSep(text, p, hi, sep) ==
    LET matches == {q \in p..(hi - Len(sep) + 1) : SubSeq(text, q, q + Len(sep) - 1) = sep}
    IN IF matches = {} THEN 0
       ELSE CHOOSE q \in matches : \A r \in matches : q <= r

\* re.split(f"({separator})", text) with every separator put at the start of the
\* piece that follows it and the empty pieces left out: start is where the running
\* piece began, scan where the search for the next separator goes on
RECURSIVE SplitFrom(_, _, _, _, _)
SplitFrom(text, start, scan, hi, sep) ==
    LET m == FindSep(text, scan, hi, sep)
    IN IF m = 0
       THEN IF start <= hi THEN <<Piece(start, hi)>> ELSE <<>>
       ELSE (IF start <= m - 1 THEN <<Piece(start, m - 1)>> ELSE <<>>)
            \o SplitFrom(text, m, m + Len(sep), hi, sep)

\* _split_text_with_regex(text, separator, keep_separator=True); list(text) for ""
split_text_with_regex(text, p, sep) ==
    IF sep = <<>>
    THEN [i \in 1..PieceLen(p) |-> Piece(p.lo + i - 1, p.lo + i - 1)]
    ELSE SplitFrom(text, p.lo, p.lo, p.hi, sep)

\* text.strip() of the characters lo..hi
RECURSIVE StripLeft(_, _, _)
StripLeft(text, lo, hi) ==
    IF lo <= hi /\ text[lo] \in Whitespace THEN StripLeft(text, lo + 1, hi) ELSE lo

RECURSIVE StripRight(_, _, _)
StripRight(text, lo, hi) ==
    IF lo <= hi /\ text[hi] \in Whitespace THEN StripRight(text, lo, hi - 1) ELSE hi

\* the join keeps the first piece only
join_docs_first_only(text, docs) ==
    IF docs = <<>> THEN <<>>
    ELSE LET lo == StripLeft(text, docs[1].lo, docs[1].hi)
             hi == StripRight(text, lo, docs[1].hi)
         IN IF lo > hi THEN <<>> ELSE <<Piece(lo, hi)>>

\* _join_docs(docs, ""): the pieces joined and stripped, nothing when that is empty
join_docs(text, docs) ==
    IF docs = <<>> THEN <<>>
    ELSE LET lo == StripLeft(text, docs[1].lo, docs[Len(docs)].hi)
             hi == StripRight(text, lo, docs[Len(docs)].hi)
         IN IF lo > hi THEN <<>> ELSE <<Piece(lo, hi)>>

\* the length of current_doc without its first k pieces; its pieces follow one
\* another in the text
LenWithout(current_doc, total, k) ==
    IF k = 0 THEN total
    ELSE total - (current_doc[k].hi - current_doc[1].lo + 1)

\* the test without its chunk_overlap part: pieces leave only to make room
MustPop_room_only(total, len, chunk_size, chunk_overlap) ==
    total + len > chunk_size /\ total > 0

\* the test of the while loop of _merge_splits
MustPop(total, len, chunk_size, chunk_overlap) ==
    total > chunk_overlap \/ (total + len > chunk_size /\ total > 0)

\* the while loop of _merge_splits: pieces leave the front of current_doc until the
\* test fails, which is after the first k of them
PopFront(current_doc, total, len, chunk_size, chunk_overlap) ==
    LET k == CHOOSE k \in 0..Len(current_doc) :
                /\ ~MustPop(LenWithout(current_doc, total, k), len,
                            chunk_size, chunk_overlap)
                /\ k > 0 => MustPop(LenWithout(current_doc, total, k - 1), len,
                                    chunk_size, chunk_overlap)
    IN [current_doc |-> SubSeq(current_doc, k + 1, Len(current_doc)),
        total |-> LenWithout(current_doc, total, k)]

\* the body of the for loop of _merge_splits(splits, "") for the split d
MergeStep(text, st, d, chunk_size, chunk_overlap) ==
    LET len == PieceLen(d)
        full == st.total + len > chunk_size /\ Len(st.current_doc) > 0
        kept == IF full
                THEN PopFront(st.current_doc, st.total, len, chunk_size, chunk_overlap)
                ELSE [current_doc |-> st.current_doc, total |-> st.total]
    IN [docs |-> IF full THEN st.docs \o join_docs(text, st.current_doc) ELSE st.docs,
        current_doc |-> Append(kept.current_doc, d),
        total |-> kept.total + len]

\* the for loop of _merge_splits over the i-th to the j-th split, one after the
\* other: the first half, whose outcome (a total that is never negative) is computed
\* before the second half starts from it
RECURSIVE MergeLoop(_, _, _, _, _, _, _)
MergeLoop(text, splits, st, i, j, chunk_size, chunk_overlap) ==
    IF i > j THEN st
    ELSE IF i = j THEN MergeStep(text, st, splits[i], chunk_size, chunk_overlap)
    ELSE LET mid == (i + j) \div 2
             half == MergeLoop(text, splits, st, i, mid, chunk_size, chunk_overlap)
         IN IF half.total < 0 THEN half
            ELSE MergeLoop(text, splits, half, mid + 1, j, chunk_size, chunk_overlap)

\* the merging lets a chunk grow one character past chunk_size
merge_splits_one_over(text, splits, chunk_size, chunk_overlap) ==
    LET st == MergeLoop(text, splits, [docs |-> <<>>, current_doc |-> <<>>, total |-> 0],
                        1, Len(splits), chunk_size + 1, chunk_overlap)
    IN st.docs \o join_docs(text, st.current_doc)

merge_splits(text, splits, chunk_size, chunk_overlap) ==
    LET st == MergeLoop(text, splits, [docs |-> <<>>, current_doc |-> <<>>, total |-> 0],
                        1, Len(splits), chunk_size, chunk_overlap)
    IN st.docs \o join_docs(text, st.current_doc)

\* the first separator from the k-th on that is "" or occurs in the piece
RECURSIVE ChosenSeparator(_, _, _)
ChosenSeparator(text, p, k) ==
    IF Separators[k] = <<>> \/ FindSep(text, p.lo, p.hi, Separators[k]) # 0 THEN k
    ELSE ChosenSeparator(text, p, k + 1)

\* _merge_splits(_good_splits, "") when there are good splits
MergeGood(text, good_splits, chunk_size, chunk_overlap) ==
    IF good_splits = <<>> THEN <<>>
    ELSE merge_splits(text, good_splits, chunk_size, chunk_overlap)

\* RecursiveCharacterTextSplitter._split_text(text, separators[k:]); j is the
\* separator chosen.  SplitStep is the body of its loop for the split s, SplitLoop
\* the loop over the i-th to the m-th split, one after the other
RECURSIVE split_text_from(_, _, _, _, _)
SplitStep(text, st, s, j, chunk_size, chunk_overlap) ==
    IF PieceLen(s) < chunk_size
    THEN [good_splits |-> Append(st.good_splits, s), final_chunks |-> st.final_chunks]
    ELSE [good_splits |-> <<>>,
          final_chunks |->
             st.final_chunks
             \o MergeGood(text, st.good_splits, chunk_size, chunk_overlap)
             \o (IF Separators[j] = <<>> THEN <<s>>
                 ELSE split_text_from(text, s, j + 1, chunk_size, chunk_overlap))]

RECURSIVE SplitLoop(_, _, _, _, _, _, _, _)
SplitLoop(text, splits, st, i, m, j, chunk_size, chunk_overlap) ==
    IF i > m THEN st
    ELSE IF i = m THEN SplitStep(text, st, splits[i], j, chunk_size, chunk_overlap)
    ELSE LET mid == (i + m) \div 2
             half == SplitLoop(text, splits, st, i, mid, j, chunk_size, chunk_overlap)
         IN IF Len(half.final_chunks) < 0 THEN half
            ELSE SplitLoop(text, splits, half, mid + 1, m, j, chunk_size, chunk_overlap)

split_text_from(text, p, k, chunk_size, chunk_overlap) ==
    LET j == ChosenSeparator(text, p, k)
        splits == split_text_with_regex(text, p, Separators[j])
        st == SplitLoop(text, splits, [good_splits |-> <<>>, final_chunks |-> <<>>],
                        1, Len(splits), j, chunk_size, chunk_overlap)
    IN st.final_chunks \o MergeGood(text, st.good_splits, chunk_size, chunk_overlap)

\* the places in the text of the chunks split_text(text) returns
split_places(text, chunk_size, chunk_overlap) ==
    split_text_from(text, Piece(1, Len(text)), 1, chunk_size, chunk_overlap)

\* self.text_splitter.split_text(text)
split_text(text, chunk_size, chunk_overlap) ==
    LET places == split_places(text, chunk_size, chunk_overlap)
    IN [i \in 1..Len(places) |-> PieceText(text, places[i])]

\* {'chunk_id': i, 'chunk_count': n, **metadata}: the caller's keys win
ChunkMetadata_caller_wins(metadata, i, n) ==
    [k \in DOMAIN metadata \cup {"chunk_id", "chunk_count"} |->
        IF k \in DOMAIN metadata THEN metadata[k]
        ELSE IF k = "chunk_id" THEN i
        ELSE n]

\* {**metadata, 'chunk_id': i, 'chunk_count': n}
ChunkMetadata(metadata, i, n) ==
    [k \in DOMAIN metadata \cup {"chunk_id", "chunk_count"} |->
        IF k = "chunk_id" THEN i
        ELSE IF k = "chunk_count" THEN n
        ELSE metadata[k]]

\* DocProcessor.chunk_text, from the loop over chunks on: chunks is what
\* self.text_splitter.split_text(text) returned.  metadata=None is the empty dict.
chunk_text(chunks, metadata) ==
    [i \in 1..Len(chunks) |->
        [text     |-> chunks[i],
         metadata |-> ChunkMetadata(metadata, i - 1, Len(chunks)),
         id       |-> FormatId(DictGet(metadata, "source", "doc"), i - 1)]]

\* an argument left at its default None
None == "None"

\* DocProcessor.process_file
process_file(chunks, file_path, source_name) ==
    LET name == IF source_name = None THEN file_path ELSE source_name
    IN chunk_text(chunks, [source |-> name, type |-> "file", file_path |-> file_path])

\* DocProcessor.process_url
process_url(chunks, url, source_name) ==
    LET name == IF source_name = None THEN url ELSE source_name
    IN chunk_text(chunks, [source |-> name, type |-> "web", url |-> url])

\* the default source_name of process_text
ManualInput == "manual_input"

\* DocProcessor.process_text
process_text(chunks, source_name) ==
    chunk_text(chunks, [source |-> source_name, type |-> "text"])

----------------------------------------------------------------------------
(* Inputs *)

T1 == <<"x">>
T2 == <<"y">>
Texts == {T1, T2}

Questions == {<<"x">>, <<"z">>}

Answers == {<<"yes">>, <<"unknown">>}

\* documents written out by a caller: one with 'id' and 'metadata', one with neither
LitDocs == {[text |-> T1, metadata |-> [topic |-> "web"], id |-> "a"],
            [text |-> T2]}

SeqsUpTo(S, n) == UNION {[1..m -> S] : m \in 0..n}

\* what the text splitter may return for a text
ChunkLists == SeqsUpTo(Texts, MaxBatch)

SourceNames == {None, "s"}

\* the outputs of the chunking calls
ChunkedBatches ==
    {chunk_text(c, EmptyDict) : c \in ChunkLists}
    \cup {process_text(c, ManualInput) : c \in ChunkLists}
    \cup {process_text(c, "s") : c \in ChunkLists}
    \cup {process_file(c, "f.txt", n) : c \in ChunkLists, n \in SourceNames}
    \cup {process_url(c, "http://u", n) : c \in ChunkLists, n \in SourceNames}

LitBatches == SeqsUpTo(LitDocs, MaxBatch)

\* the number of documents in sample_docs of main
NumSampleDocs == 10

\* sample_docs of main: documents with 'text', 'metadata' and 'id', the ids all
\* different; the i-th text stands for the i-th literal text and has embedding i
sample_docs ==
    [i \in 1..NumSampleDocs |->
        [text |-> [k \in 1..i |-> "x"], metadata |-> [topic |-> "web_development"],
         id |-> FormatId("sample", i)]]

\* the k-th chunk of the sample texts; its embedding is 3 * k
SampleChunk(k) == [i \in 1..k |-> "y"]

\* load_sample_documents(): three texts with three different sources, each text
\* longer than the chunk_size of 500 and given here by the chunks it is split in
load_sample_documents ==
    process_text(<<SampleChunk(1), SampleChunk(2)>>, "ai_overview")
    \o process_text(<<SampleChunk(3), SampleChunk(4)>>, "python_overview")
    \o process_text(<<SampleChunk(5), SampleChunk(6)>>, "vector_db_overview")

\* demo_questions of demo_basic_usage
demo_questions == << <<"x">>, <<"y">>, <<"z">>, <<"x", "y">> >>

\* str.lower() of one character
UpperCase == <<"E", "F", "I", "N", "O", "Q", "T", "U", "X">>
LowerCase == <<"e", "f", "i", "n", "o", "q", "t", "u", "x">>
LowerChar(c) ==
    IF \E i \in DOMAIN UpperCase : UpperCase[i] = c
    THEN LowerCase[CHOOSE i \in DOMAIN UpperCase : UpperCase[i] = c]
    ELSE c

\* line.lower()
Lower(line) == [i \in 1..Len(line) |-> LowerChar(line[i])]

\* line.strip()
Strip(line) ==
    LET lo == StripLeft(line, 1, Len(line))
    IN SubSeq(line, lo, StripRight(line, lo, Len(line)))

\* ['quit', 'exit', 'q']
QuitWords == {<<"q", "u", "i", "t">>, <<"e", "x", "i", "t">>, <<"q">>}

\* 'info'
InfoWord == <<"i", "n", "f", "o">>

\* Ctrl-C at the prompt instead of a line: input() raises KeyboardInterrupt
Interrupt == <<"^C">>

\* what the user may type at a prompt
InputLines == {<<"q", "u", "i", "t">>, <<" ", "Q">>, <<"I", "n", "f", "o">>,
               <<>>, <<" ">>, <<"x">>, <<" ", "z", " ">>, Interrupt}

\* the end of the input instead of a line: input() raises EOFError, now and at
\* every later prompt
EndOfInput == <<"EOF">>

\* the characters of the texts given to the text splitter
Chars == {"a", " ", "\n"}

SplitTexts == SeqsUpTo(Chars, MaxTextLen)

\* DocProcessor(chunk_size=500, chunk_overlap=50) of load_sample_documents
SampleChunkSize == 500
SampleChunkOverlap == 50

\* a text of 1050 characters: two full chunks and one overlap
ScenarioLen == 2 * SampleChunkSize + SampleChunkOverlap

\* the text of ScenarioLen characters with a space at the places given
ScenarioText(spaces) == [i \in 1..ScenarioLen |-> IF i \in spaces THEN " " ELSE "a"]

\* where the spaces of such a text may be: every hundredth place
ScenarioPlaces == {2 * SampleChunkOverlap * k : k \in 1..(SampleChunkSize \div SampleChunkOverlap)}

\* the texts of ScenarioLen characters with no, one or two spaces
ScenarioTexts ==
    {ScenarioText({})}
    \cup {ScenarioText({p}) : p \in ScenarioPlaces}
    \cup {ScenarioText({p, q}) : p, q \in ScenarioPlaces}

\* the metadata a caller hands to chunk_text: none, a source, and one that carries
\* the keys chunk_text sets itself
CallerMetadatas == {EmptyDict, [source |-> "s"],
                    [source |-> "s", chunk_id |-> 7, chunk_count |-> 9]}

----------------------------------------------------------------------------
(* The state machine *)

Live == handle # 0 /\ handle = collUid

\* no program has been started; found is the document count a program found when
\* it started, -1 as long as it has not asked
NoRun == [prog |-> "none", pc |-> "idle", n |-> 0, eof |-> FALSE, read |-> <<>>,
          asked |-> <<>>, info |-> EmptyDict, error |-> "none", found |-> -1, eofs |-> 0]

Init ==
    /\ entries = <<>>
    /\ collUid = 0
    /\ handle = 0
    /\ last = [op |-> "none", ok |-> TRUE, args |-> <<>>, ret |-> NoRet, calls |-> <<>>]
    /\ run = NoRun

\* rag = SimpleRAG()
Construct ==
    /\ \E getFails, createFails \in BOOLEAN :
         LET r == rag_init(entries, collUid, handle, getFails, createFails)
         IN /\ entries' = r.entries
            /\ collUid' = r.collUid
            /\ handle' = r.handle
            /\ last' = [op |-> "init", ok |-> r.ok, args |-> <<>>, ret |-> NoRet,
                        calls |-> r.calls]
    /\ UNCHANGED run

\* rag.add_documents(documents) with one of fails as the collaborator call that fails
AddWith(documents, fails) ==
    /\ \E fail \in fails :
         LET r == add_documents(entries, Live, documents, fail)
         IN /\ Len(r.entries) <= MaxDocs
            /\ entries' = r.entries
            /\ last' = [op |-> "add", ok |-> r.ok, args |-> documents,
                        ret |-> NoRet, calls |-> r.calls]
    /\ UNCHANGED <<collUid, handle, run>>

Add(documents) == AddWith(documents, 0..(Len(documents) + 1))

\* rag.add_documents(documents), the documents written out by the caller
AddDocuments ==
    /\ handle # 0
    /\ \E documents \in LitBatches : Add(documents)

\* what collection.query returns when it is reached and does not fail
NoResults == [ids |-> <<>>, documents |-> <<>>, metadatas |-> <<>>, distances |-> <<>>]

IndexAnswers(q, k, fail) ==
    IF fail \in {1, 2} \/ ~Live \/ k <= 0
    THEN {NoResults}
    ELSE CollectionQuery(entries, Embed(q), k)

\* what the chat collaborator says when it is reached and does not fail
ChatAnswers(fail) == IF fail = 0 THEN Answers ELSE {NoRet}

\* rag.search_documents(query, n_results)
SearchDocuments ==
    /\ handle # 0
    /\ \E q \in Questions, k \in 0..MaxK, fail \in 0..2 :
         \E results \in IndexAnswers(q, k, fail) :
            LET r == search_documents(entries, Live, q, k, fail, results)
            IN last' = [op |-> "search", ok |-> r.ok,
                        args |-> [question |-> q, n_results |-> k],
                        ret |-> r.ret, calls |-> r.calls]
    /\ UNCHANGED <<entries, collUid, handle, run>>

\* rag.query(question, n_results)
Query ==
    /\ handle # 0
    /\ \E q \in Questions, k \in 0..MaxK, fail \in 0..3 :
         \E results \in IndexAnswers(q, k, fail), answer \in ChatAnswers(fail) :
            LET r == query(entries, Live, q, k, fail, results, answer)
            IN last' = [op |-> "query", ok |-> r.ok,
                        args |-> [question |-> q, n_results |-> k],
                        ret |-> r.ret, calls |-> r.calls]
    /\ UNCHANGED <<entries, collUid, handle, run>>

\* get_collection_info that answers a failed count by creating the collection anew, as
\* the constructor answers a failed get_collection
GetCollectionInfo_recreate ==
    /\ handle # 0
    /\ \E fails \in BOOLEAN :
         LET r == get_collection_info(entries, Live, fails)
             failed == "error" \in DOMAIN r.ret
         IN /\ last' = [op |-> "info", ok |-> r.ok, args |-> <<>>, ret |-> r.ret,
                        calls |-> r.calls]
            /\ entries' = IF failed THEN <<>> ELSE entries
            /\ collUid' = IF failed THEN FreshUid(collUid) ELSE collUid
            /\ handle' = IF failed THEN FreshUid(collUid) ELSE handle
    /\ UNCHANGED run

\* rag.get_collection_info()
GetCollectionInfo ==
    /\ handle # 0
    /\ \E fails \in BOOLEAN :
         LET r == get_collection_info(entries, Live, fails)
         IN last' = [op |-> "info", ok |-> r.ok, args |-> <<>>, ret |-> r.ret,
                     calls |-> r.calls]
    /\ UNCHANGED <<entries, collUid, handle, run>>

\* the collection is cleared
Clear ==
    /\ handle # 0
    /\ \E fail \in 0..2 :
         LET r == clear(entries, collUid, handle, fail)
         IN /\ entries' = r.entries
            /\ collUid' = r.collUid
            /\ handle' = r.handle
            \* args holds the count the clearing found (main reads it before clearing)
            /\ last' = [op |-> "clear", ok |-> r.ok, args |-> <<Len(entries)>>,
                        ret |-> NoRet, calls |-> r.calls]
    /\ UNCHANGED run

Next ==
    \/ Construct
    \/ AddDocuments
    \/ SearchDocuments
    \/ Query
    \/ GetCollectionInfo
    \/ Clear

Spec == Init /\ [][Next]_vars

\* rag.add_documents(docs), the documents made by a chunking call; no collaborator
\* fails for a reason of its own (the failures are those of Spec)
AddChunked ==
    /\ handle # 0
    /\ \E documents \in ChunkedBatches : AddWith(documents, {0})

\* rag.add_documents(documents), the documents written out by the caller, likewise
AddLiteral ==
    /\ handle # 0
    /\ \E documents \in LitBatches : AddWith(documents, {0})

NextChunk ==
    \/ Construct
    \/ AddChunked
    \/ AddLiteral

\* the chunking calls and the adding of what they return
SpecChunk == Init /\ [][NextChunk]_vars

\* a DocProcessor(chunk_size, chunk_overlap) made and a text and its metadata at
\* hand: args holds text, metadata, chunk_size and chunk_overlap, which the
\* constructor takes only with chunk_overlap <= chunk_size.  The processors are the
\* small ones and the one load_sample_documents makes, with a text of 1050 characters.
InitSplit ==
    /\ run = NoRun
    /\ entries = <<>>
    /\ collUid = 0
    /\ handle = 0
    /\ \/ \E text \in SplitTexts, chunk_size \in 1..MaxChunkSize :
            \E chunk_overlap \in 0..(chunk_size - 1), metadata \in CallerMetadatas :
               last = [op |-> "processor", ok |-> TRUE,
                       args |-> <<text, metadata, chunk_size, chunk_overlap>>,
                       ret |-> NoRet, calls |-> <<>>]
       \/ \E text \in ScenarioTexts :
            last = [op |-> "processor", ok |-> TRUE,
                    args |-> <<text, EmptyDict, SampleChunkSize, SampleChunkOverlap>>,
                    ret |-> NoRet, calls |-> <<>>]

\* processor.text_splitter.split_text(text)
SplitText ==
    /\ last.op = "processor"
    /\ last' = [last EXCEPT !.op = "split_text",
                            !.ret = split_text(last.args[1], last.args[3], last.args[4])]
    /\ UNCHANGED <<entries, collUid, handle, run>>

\* processor.chunk_text(text, metadata)
ChunkText ==
    /\ last.op = "processor"
    /\ last' = [last EXCEPT !.op = "chunk_text",
                            !.ret = chunk_text(split_text(last.args[1], last.args[3],
                                                          last.args[4]),
                                               last.args[2])]
    /\ UNCHANGED <<entries, collUid, handle, run>>

NextSplit ==
    \/ SplitText
    \/ ChunkText

\* the splitting and chunking of texts
SpecSplit == InitSplit /\ [][NextSplit]_vars

----------------------------------------------------------------------------
(* The programs: main of rag_app.py (cli_runner.py has the same main over CoreRAG),
   demo_basic_usage and interactive_demo of example_script.py (and demo_runner.py).
   The collection is persistent: what one run leaves, the next run finds. *)

Ended == {"idle", "done", "crashed"}

LoopPrograms == {"main", "interactive_demo"}

DemoPrograms == {"demo_basic_usage", "interactive_demo"}

\* the process starts: no SimpleRAG object and no call made yet, the input not read yet
Start(prog) ==
    /\ run.pc \in Ended
    /\ run.n < MaxRuns
    /\ run' = [prog |-> prog, pc |-> "new", n |-> run.n + 1, eof |-> FALSE,
               read |-> <<>>, asked |-> <<>>, info |-> EmptyDict, error |-> "none",
               found |-> -1, eofs |-> 0]
    /\ handle' = 0
    /\ last' = [op |-> "none", ok |-> TRUE, args |-> <<>>, ret |-> NoRet, calls |-> <<>>]
    /\ UNCHANGED <<entries, collUid>>

StartMain == Start("main")

StartDemo == \E prog \in DemoPrograms : Start(prog)

\* the exception e ends the program
Crash(e) == [run EXCEPT !.pc = "crashed", !.error = e]

\* rag = SimpleRAG()
RunConstruct ==
    /\ run.pc = "new"
    /\ \E getFails, createFails \in BOOLEAN :
         LET r == rag_init(entries, collUid, handle, getFails, createFails)
         IN /\ entries' = r.entries
            /\ collUid' = r.collUid
            /\ handle' = r.handle
            /\ last' = [op |-> "init", ok |-> r.ok, args |-> <<>>, ret |-> NoRet,
                        calls |-> r.calls]
            /\ run' = IF r.ok THEN [run EXCEPT !.pc = "info"] ELSE Crash("init")

\* main: if info['document_count'] != 0: clear, else add
main_after_info_add(info) == "add"

main_after_info(info) == IF info.document_count # 0 THEN "clear" ELSE "add"

\* where the program goes on once the samples are in: the demo questions or the loop
Body(prog) == IF prog = "demo_basic_usage" THEN "ask" ELSE "loop"

\* the demos: if info['document_count'] == 0: load the samples
demo_after_info_load(prog, info) == "load"

demo_after_info(prog, info) == IF info.document_count = 0 THEN "load" ELSE Body(prog)

\* info = rag.get_collection_info() and the lookups info['collection_name'] and
\* info['document_count'] that follow it, which raise KeyError on a missing key
RunInfo ==
    /\ run.pc = "info"
    /\ \E fails \in BOOLEAN :
         LET r == get_collection_info(entries, Live, fails)
             info == r.ret
         IN /\ last' = [op |-> "info", ok |-> r.ok, args |-> <<>>, ret |-> info,
                        calls |-> r.calls]
            /\ run' = IF "document_count" \notin DOMAIN info
                      THEN [Crash("KeyError") EXCEPT !.info = info]
                      ELSE [run EXCEPT !.info = info,
                                       !.found = info.document_count,
                                       !.pc = IF run.prog = "main"
                                              THEN main_after_info(info)
                                              ELSE demo_after_info(run.prog, info)]
    /\ UNCHANGED <<entries, collUid, handle>>

\* main: rag.chroma_client.delete_collection(...); rag.collection = create_collection(...)
MainClear ==
    /\ run.pc = "clear"
    /\ \E fail \in 0..2 :
         LET r == clear(entries, collUid, handle, fail)
         IN /\ entries' = r.entries
            /\ collUid' = r.collUid
            /\ handle' = r.handle
            /\ last' = [op |-> "clear", ok |-> r.ok, args |-> <<Len(entries)>>,
                        ret |-> NoRet, calls |-> r.calls]
            /\ run' = IF r.ok THEN [run EXCEPT !.pc = "info2"] ELSE Crash("clear")

\* main: info = rag.get_collection_info() after the clearing; nothing is looked up
MainInfoAgain ==
    /\ run.pc = "info2"
    /\ \E fails \in BOOLEAN :
         LET r == get_collection_info(entries, Live, fails)
         IN /\ last' = [op |-> "info", ok |-> r.ok, args |-> <<>>, ret |-> r.ret,
                        calls |-> r.calls]
            /\ run' = [run EXCEPT !.info = r.ret, !.pc = "add"]
    /\ UNCHANGED <<entries, collUid, handle>>

\* rag.add_documents(documents) in a program: an exception ends the program
RunAdd(documents, then) ==
    /\ \E fail \in 0..(Len(documents) + 1) :
         LET r == add_documents(entries, Live, documents, fail)
         IN /\ entries' = r.entries
            /\ last' = [op |-> "add", ok |-> r.ok, args |-> documents,
                        ret |-> NoRet, calls |-> r.calls]
            /\ run' = IF r.ok THEN [run EXCEPT !.pc = then] ELSE Crash("add")
    /\ UNCHANGED <<collUid, handle>>

\* main: rag.add_documents(sample_docs)
MainAdd ==
    /\ run.pc = "add"
    /\ RunAdd(sample_docs, "loop")

\* the demos: sample_docs = load_sample_documents(); rag.add_documents(sample_docs)
DemoLoad ==
    /\ run.pc = "load"
    /\ RunAdd(load_sample_documents, Body(run.prog))

\* result = rag.query(question, n_results) inside try / except Exception: the error
\* is printed and the program goes on; after is the program's state after the call
RunQuery(question, n_results, after) ==
    /\ \E fail \in 0..3 :
         \E results \in IndexAnswers(question, n_results, fail),
            answer \in ChatAnswers(fail) :
            LET r == query(entries, Live, question, n_results, fail, results, answer)
            IN last' = [op |-> "query", ok |-> r.ok,
                        args |-> [question |-> question, n_results |-> n_results],
                        ret |-> r.ret, calls |-> r.calls]
    /\ run' = [after EXCEPT !.asked = Append(run.asked, question)]
    /\ UNCHANGED <<entries, collUid, handle>>

\* demo_basic_usage: the next of the demo questions, with n_results=2
DemoAsk ==
    /\ run.pc = "ask"
    /\ LET k == Len(run.asked) + 1
       IN RunQuery(demo_questions[k], 2,
                   IF k = Len(demo_questions) THEN [run EXCEPT !.pc = "done"] ELSE run)

\* question.lower() in ['quit', 'exit', 'q'], without the lower()
IsQuit_case_sensitive(question) == question \in QuitWords

\* question.lower() in ['quit', 'exit', 'q']
IsQuit(question) == Lower(question) \in QuitWords

\* what input() meets at the prompt: a line of the user, Ctrl-C, or the end of the
\* input, which is all there is once the input has ended
AtPrompt ==
    IF run.eof \/ Len(run.read) >= MaxInputs THEN {EndOfInput}
    ELSE InputLines \cup {EndOfInput}

\* the line at the prompt is read
ReadLine(line) == [run EXCEPT !.read = Append(run.read, line)]

\* main, one turn of while True: input() is outside the try, so EOFError and
\* KeyboardInterrupt end the program; an exception of rag.query is printed
MainLoop ==
    /\ run.pc = "loop"
    /\ run.prog = "main"
    /\ \E line \in AtPrompt :
         IF line = EndOfInput
         THEN /\ run' = [Crash("EOFError") EXCEPT !.eof = TRUE]
              /\ UNCHANGED <<entries, collUid, handle, last>>
         ELSE IF line = Interrupt
         THEN /\ run' = [ReadLine(line) EXCEPT !.pc = "crashed",
                                               !.error = "KeyboardInterrupt"]
              /\ UNCHANGED <<entries, collUid, handle, last>>
         ELSE LET question == Strip(line)
              IN IF IsQuit(question)
                 THEN /\ run' = [ReadLine(line) EXCEPT !.pc = "done"]
                      /\ UNCHANGED <<entries, collUid, handle, last>>
                 ELSE IF question # <<>>
                 THEN RunQuery(question, 3, ReadLine(line))
                 ELSE /\ run' = ReadLine(line)
                      /\ UNCHANGED <<entries, collUid, handle, last>>

\* interactive_demo, one turn of while True: the whole turn is inside the try;
\* KeyboardInterrupt breaks, any other exception (EOFError of input(), KeyError of
\* the info lookups, an exception of rag.query) is printed and the loop goes on
\* (run.eofs is the number of EOFError messages printed, modulo 2)
DemoLoop ==
    /\ run.pc = "loop"
    /\ run.prog = "interactive_demo"
    /\ \E line \in AtPrompt :
         IF line = EndOfInput
         THEN /\ run' = [run EXCEPT !.eof = TRUE, !.error = "EOFError",
                                     !.eofs = (run.eofs + 1) % 2]
              /\ UNCHANGED <<entries, collUid, handle, last>>
         ELSE IF line = Interrupt
         THEN /\ run' = [ReadLine(line) EXCEPT !.pc = "done"]
              /\ UNCHANGED <<entries, collUid, handle, last>>
         ELSE LET query_ == Strip(line)
              IN IF IsQuit(query_)
                 THEN /\ run' = [ReadLine(line) EXCEPT !.pc = "done"]
                      /\ UNCHANGED <<entries, collUid, handle, last>>
                 ELSE IF Lower(query_) = InfoWord
                 THEN /\ \E fails \in BOOLEAN :
                           LET r == get_collection_info(entries, Live, fails)
                           IN /\ last' = [op |-> "info", ok |-> r.ok, args |-> <<>>,
                                          ret |-> r.ret, calls |-> r.calls]
                              /\ run' = [ReadLine(line) EXCEPT
                                           !.info = r.ret,
                                           !.error = IF "collection_name" \in DOMAIN r.ret
                                                     THEN run.error ELSE "KeyError"]
                      /\ UNCHANGED <<entries, collUid, handle>>
                 ELSE IF query_ = <<>>
                 THEN /\ run' = ReadLine(line)
                      /\ UNCHANGED <<entries, collUid, handle, last>>
                 ELSE RunQuery(query_, 3, ReadLine(line))

NextRun ==
    \/ StartMain
    \/ StartDemo
    \/ RunConstruct
    \/ RunInfo
    \/ MainClear
    \/ MainInfoAgain
    \/ MainAdd
    \/ MainLoop
    \/ DemoLoad
    \/ DemoAsk
    \/ DemoLoop

\* runs of the programs, one after the other, on one persistent collection
SpecRun == Init /\ [][NextRun]_vars

\* a program at its prompt is not left there: input() returns or raises, and the
\* turn of the loop is executed
FairSpecRun == SpecRun /\ WF_vars(MainLoop) /\ WF_vars(DemoLoop)

NextDemo ==
    \/ StartDemo
    \/ RunConstruct
    \/ RunInfo
    \/ DemoLoad
    \/ DemoAsk
    \/ DemoLoop

\* runs of the demos only
SpecDemo == Init /\ [][NextDemo]_vars

----------------------------------------------------------------------------
(* Claims *)

\* the position of the document whose embedding failed in the call l; 0: none failed
EmbedFailedAt(l) ==
    IF /\ Len(l.calls) > 0
       /\ l.calls[Len(l.calls)].fn = "embed"
       /\ ~l.calls[Len(l.calls)].ok
    THEN Len(l.calls) ELSE 0

\* C1 as claimed: when add_documents fails on the embedding of document j > 1, the
\* documents d1..d(j-1) of that call are persisted in the collection.
C1_EarlierDocumentsPersisted ==
    (last.op = "add" /\ EmbedFailedAt(last) > 1)
        => \A i \in 1..(EmbedFailedAt(last) - 1) : DocId(last.args, i) \in EntryIds(entries)

\* C1 as amended: an add_documents call in which the embedding of any document fails
\* raises, and leaves the collection exactly as it was before the call: no document of
\* the call is persisted by it.
C1_FailedAddPersistsNothing ==
    [][(last'.op = "add" /\ EmbedFailedAt(last') > 0)
          => (~last'.ok /\ entries' = entries)]_vars

\* C1's case: the embedding of the second document failed, and the first document of
\* the call is not in the collection
C1_Witness ==
    /\ last.op = "add"
    /\ EmbedFailedAt(last) = 2
    /\ Live
    /\ DocId(last.args, 1) \notin EntryIds(entries)

\* C2 as claimed: a collaborator call that fails makes the operation fail: the operation
\* does not return normally.  (A get_collection that finds no collection is the
\* get-or-create of the constructor and is not counted.)
C2_NoErrorSwallowed ==
    \A i \in DOMAIN last.calls :
        (/\ ~last.calls[i].ok
         /\ ~(last.calls[i].fn = "get_collection" /\ last.calls[i].arg = "absent"))
            => ~last.ok

\* C3 as claimed: a document submitted to the collection has an id that no different
\* document has, neither one of the same call nor one the collection holds.
C3_SubmittedIdsUnique ==
    (last.op = "add" /\ last.ok) =>
        /\ \A i, j \in DOMAIN last.args :
              last.args[i] # last.args[j] => DocId(last.args, i) # DocId(last.args, j)
        /\ \A i \in DOMAIN last.args : \A e \in Range(entries) :
              e.id = DocId(last.args, i) =>
                  /\ e.text = last.args[i].text
                  /\ e.metadata = DictGet(last.args[i], "metadata", EmptyDict)

\* count(): the document_count that get_collection_info returns
Count == get_collection_info(entries, TRUE, FALSE).ret.document_count

\* the ids of the documents of one call
ArgIds(documents) == {DocId(documents, i) : i \in DOMAIN documents}

\* C4: count() is the number of distinct ids persisted, in every state and whenever
\* get_collection_info returns a document_count; and a successful add_documents raises
\* count() by the number of distinct ids of the call that were not persisted before it.
C4_CountIsDistinctIds ==
    /\ [](/\ Count = Cardinality(EntryIds(entries))
          /\ (last.op = "info" /\ "document_count" \in DOMAIN last.ret)
                => last.ret.document_count = Cardinality(EntryIds(entries)))
    /\ [][(last'.op = "add" /\ last'.ok)
            => Count' = Count + Cardinality(ArgIds(last'.args) \ EntryIds(entries))]_vars

\* C4's case: a successful add of one document whose id was persisted before, count() 2
C4_Witness ==
    /\ last.op = "add"
    /\ last.ok
    /\ Len(last.args) = 1
    /\ Count = 2
    /\ DocId(last.args, 1) = entries[1].id

\* the distances of a search result do not decrease
SortedByDistance(res) ==
    \A i, j \in DOMAIN res : i < j => res[i].distance <= res[j].distance

\* C5: a search_documents call that returns, returns min(n_results, count()) results,
\* sorted by non-decreasing distance.
C5_SearchLengthAndOrder ==
    (last.op = "search" /\ last.ok) =>
        /\ Len(last.ret) = Min(last.args.n_results, Count)
        /\ SortedByDistance(last.ret)

\* C5's case: two entries at different distances, more results asked for than held
C5_Witness ==
    /\ last.op = "search"
    /\ last.ok
    /\ last.args.n_results > Count
    /\ Len(last.ret) = 2
    /\ last.ret[1].distance < last.ret[2].distance

\* C6: search_documents, query and get_collection_info, returning or raising, leave the
\* persisted entries, the collection and the handle to it as they were.
C6_ReadsChangeNothing ==
    [][last'.op \in {"search", "query", "info"}
          => (entries' = entries /\ collUid' = collUid /\ handle' = handle)]_vars

\* C6's case: a query that raised, on a collection that holds entries
C6_Witness ==
    /\ last.op = "query"
    /\ ~last.ok
    /\ Live
    /\ Len(entries) > 0

\* C7: after a clearing that went through, count() is 0, rag.collection is the new
\* collection, search_documents returns the empty sequence for every query and every
\* n_results > 0, and a second clearing goes through and leaves the same.
C7_ClearEmptiesAndIsIdempotent ==
    (last.op = "clear" /\ last.ok) =>
        /\ Count = 0
        /\ Live
        /\ \A q \in Questions, k \in 1..MaxK :
              \A results \in CollectionQuery(entries, Embed(q), k) :
                 LET r == search_documents(entries, Live, q, k, 0, results)
                 IN r.ok /\ r.ret = <<>>
        /\ LET again == clear(entries, collUid, handle, 0)
           IN /\ again.ok
              /\ again.entries = entries
              /\ again.handle = again.collUid
              /\ again.collUid # 0

\* C7's case: a collection that held documents was cleared
C7_Witness ==
    /\ last.op = "clear"
    /\ last.ok
    /\ Len(last.calls) = 2
    /\ last.args[1] > 0

\* the texts of the sources, first to n-th, with the delimiter between them
RECURSIVE SourceTexts(_, _)
SourceTexts(sources, n) ==
    IF n = 0 THEN <<>>
    ELSE IF n = 1 THEN sources[1].text
    ELSE SourceTexts(sources, n - 1) \o ContextDelimiter \o sources[n].text

\* C8: a query that returns, returns the question it was given and, as sources, the
\* results of its index lookup in the order the index gave them; the prompt it sent to
\* the chat collaborator holds the texts of these sources in that order, joined by the
\* delimiter.
C8_QueryReturnsSearchResults ==
    (last.op = "query" /\ last.ok) =>
        LET lookup  == last.calls[2]
            chat    == last.calls[3]
            sources == last.ret.sources
        IN /\ last.ret.question = last.args.question
           /\ lookup.fn = "query"
           /\ Len(sources) = Len(lookup.ret.ids)
           /\ \A i \in DOMAIN sources :
                 sources[i] = [text     |-> lookup.ret.documents[i],
                               metadata |-> lookup.ret.metadatas[i],
                               distance |-> lookup.ret.distances[i],
                               id       |-> lookup.ret.ids[i]]
           /\ chat.fn = "chat"
           /\ chat.arg[Len(chat.arg)].content =
                 PromptHead \o SourceTexts(sources, Len(sources)) \o QuestionLabel
                    \o last.args.question \o AnswerLabel

\* C8's case: a query that returned two sources of different texts
C8_Witness ==
    /\ last.op = "query"
    /\ last.ok
    /\ Len(last.ret.sources) = 2
    /\ last.ret.sources[1].text # last.ret.sources[2].text

\* the calls of the collaborator fn in the call l
CallsOf(l, fn) == {i \in DOMAIN l.calls : l.calls[i].fn = fn}

\* C9: a query calls the embedding, the index and the chat collaborator at most once
\* each; when the embedding or the index fails, the query raises and the chat
\* collaborator is not called; when the chat collaborator fails, the query raises and
\* returns nothing.
C9_QueryPropagatesWithoutRetry ==
    last.op = "query" =>
        /\ \A fn \in {"embed", "query", "chat"} : Cardinality(CallsOf(last, fn)) <= 1
        /\ (\E i \in CallsOf(last, "embed") \cup CallsOf(last, "query") : ~last.calls[i].ok)
              => (~last.ok /\ CallsOf(last, "chat") = {})
        /\ (\E i \in CallsOf(last, "chat") : ~last.calls[i].ok)
              => (~last.ok /\ last.ret = NoRet)

\* C9's case: the search found a source and the chat collaborator failed
C9_Witness ==
    /\ last.op = "query"
    /\ Len(last.calls) = 3
    /\ last.calls[2].ok
    /\ Len(last.calls[2].ret.ids) > 0
    /\ ~last.calls[3].ok

\* the contents of the messages of one chat call, in the order they are sent
RECURSIVE Contents(_)
Contents(messages) ==
    IF Len(messages) = 0 THEN <<>> ELSE Head(messages).content \o Contents(Tail(messages))

\* the context block of a prompt: the label and the joined texts of the documents
ContextBlock(documents) ==
    <<"Context:", "\n">> \o Join(documents, ContextDelimiter)

\* C10 as claimed: in what the chat collaborator receives, the context block comes
\* first, the literal question after it, and the instruction to answer from the context
\* after the question.
C10_InstructionFollowsQuestion ==
    last.op = "query" =>
        \A c \in CallsOf(last, "chat") :
            LET received == Contents(last.calls[c].arg)
                block    == ContextBlock(last.calls[2].ret.documents)
                question == last.args.question
            IN \E i, j, k \in 1..Len(received) :
                  /\ OccursAt(block, received, i)
                  /\ j >= i + Len(block)
                  /\ OccursAt(question, received, j)
                  /\ k >= j + Len(question)
                  /\ OccursAt(SystemInstruction, received, k)

\* C10 as amended: every chat call of a query carries two messages: first the system
\* message, which is the instruction to answer from the context and to say so when the
\* context does not hold the answer, then the user prompt, in which the context block
\* comes first and the labelled literal question after it, before the answer label.
C10_InstructionPrecedesPrompt ==
    last.op = "query" =>
        \A c \in CallsOf(last, "chat") :
            LET messages == last.calls[c].arg
                block    == ContextBlock(last.calls[2].ret.documents)
                question == QuestionLabel \o last.args.question \o AnswerLabel
            IN /\ Len(messages) = 2
               /\ messages[1] = [role |-> "system", content |-> SystemInstruction]
               /\ messages[2].role = "user"
               /\ \E i, j \in 1..Len(messages[2].content) :
                     /\ OccursAt(block, messages[2].content, i)
                     /\ j >= i + Len(block)
                     /\ OccursAt(question, messages[2].content, j)
                     /\ j + Len(question) - 1 = Len(messages[2].content)

\* C10's case: a query that reached the chat collaborator with a source in the context
C10_Witness ==
    /\ last.op = "query"
    /\ CallsOf(last, "chat") # {}
    /\ Len(last.calls[2].ret.documents) > 0

\* C11: the documents chunk_text returns carry, in output order, the chunk index
\* 0, 1, ..., chunk_count-1, each exactly once, and all carry the same chunk_count,
\* the number of documents returned, whatever keys the caller's metadata has.
C11_ChunkIndexContiguous ==
    (last.op = "chunk_text") =>
        \A i \in 1..Len(last.ret) :
            /\ last.ret[i].metadata.chunk_id = i - 1
            /\ last.ret[i].metadata.chunk_count = Len(last.ret)

\* C11's case: a text chunked into several documents, the caller's metadata having
\* the keys chunk_id and chunk_count
C11_Witness ==
    /\ last.op = "chunk_text"
    /\ Len(last.ret) >= 2
    /\ {"chunk_id", "chunk_count"} \subseteq DOMAIN last.args[2]

\* the text, chunk_size and chunk_overlap of the call last made
SplitArg == last.args[1]
SizeArg == last.args[3]
OverlapArg == last.args[4]

\* C12: every chunk split_text returns, and the text of every document chunk_text
\* returns, has at most chunk_size characters.
C12_ChunkWithinSize ==
    /\ (last.op = "split_text") =>
          \A i \in 1..Len(last.ret) : Len(last.ret[i]) <= SizeArg
    /\ (last.op = "chunk_text") =>
          \A i \in 1..Len(last.ret) : Len(last.ret[i].text) <= SizeArg

\* C12's case: a text longer than chunk_size with none of the separators in it, cut
\* character by character
C12_Witness ==
    /\ last.op = "split_text"
    /\ Len(SplitArg) > SizeArg
    /\ \A i \in 1..Len(SplitArg) : SplitArg[i] \notin Whitespace
    /\ Len(last.ret) >= 2

\* the places in the text of the chunks of the call last made
PlacesOfLast == split_places(SplitArg, SizeArg, OverlapArg)

\* the chunks from the i-th on put one after the other, each without the characters
\* it shares with the chunks before it: covered is the last place already put
RECURSIVE Rebuild(_, _, _, _)
Rebuild(text, places, i, covered) ==
    IF i > Len(places) THEN <<>>
    ELSE LET from == IF places[i].lo > covered THEN places[i].lo ELSE covered + 1
         IN SubSeq(text, from, places[i].hi)
            \o Rebuild(text, places, i + 1,
                       IF places[i].hi > covered THEN places[i].hi ELSE covered)

\* the characters of s that are not whitespace, in order
NotWhitespace(c) == c \notin Whitespace
NoWhitespace(s) == SelectSeq(s, NotWhitespace)

\* every chunk returned is the run of the text at its place
ChunksAt(places) ==
    /\ Len(last.ret) = Len(places)
    /\ \A i \in 1..Len(last.ret) : last.ret[i] = PieceText(SplitArg, places[i])

\* C13 as stated: the chunks split_text returns, concatenated in order with the
\* overlapping prefix of each removed, are exactly the original text.
C13_ReconstructsText ==
    (last.op = "split_text") =>
        LET places == PlacesOfLast
        IN /\ ChunksAt(places)
           /\ Rebuild(SplitArg, places, 1, 0) = SplitArg

\* C13 amended: the chunks are runs of the text in text order, every character of
\* the text that is in no chunk is a whitespace character, and the chunks
\* concatenated with overlaps removed have the text's non-whitespace characters,
\* all of them and in order.
C13_OnlyWhitespaceDropped ==
    (last.op = "split_text") =>
        LET places == PlacesOfLast
        IN /\ ChunksAt(places)
           /\ \A i \in 1..(Len(places) - 1) :
                 /\ places[i].lo <= places[i + 1].lo
                 /\ places[i].hi <= places[i + 1].hi
           /\ \A pos \in 1..Len(SplitArg) :
                 (\A i \in 1..Len(places) : pos < places[i].lo \/ pos > places[i].hi)
                    => SplitArg[pos] \in Whitespace
           /\ NoWhitespace(Rebuild(SplitArg, places, 1, 0)) = NoWhitespace(SplitArg)

\* C13's case: a text split into several chunks, a separator dropped between them
C13_Witness ==
    /\ last.op = "split_text"
    /\ Len(last.ret) >= 2
    /\ LET places == PlacesOfLast
       IN /\ \E pos \in 1..Len(SplitArg) :
                /\ SplitArg[pos] \in Whitespace
                /\ \A i \in 1..Len(places) : pos < places[i].lo \/ pos > places[i].hi
          /\ \E i \in 1..(Len(places) - 1) : places[i].hi >= places[i + 1].lo

\* the number of characters of the text that the i-th and the next chunk share
Shared(places, i) ==
    IF places[i].hi >= places[i + 1].lo THEN places[i].hi - places[i + 1].lo + 1 ELSE 0

\* the call last made is the scenario: 1050 characters, chunk_size 500, overlap 50
IsScenario ==
    /\ Len(SplitArg) = ScenarioLen
    /\ SizeArg = SampleChunkSize
    /\ OverlapArg = SampleChunkOverlap

\* C14 as stated: two consecutive chunks of split_text share at most chunk_overlap
\* characters, and a text of 1050 characters with chunk_size 500 and chunk_overlap
\* 50 gives exactly 3 chunks, each of at most 500 characters.
C14_OverlapBoundAndThreeChunks ==
    (last.op = "split_text") =>
        LET places == PlacesOfLast
        IN /\ ChunksAt(places)
           /\ \A i \in 1..(Len(places) - 1) : Shared(places, i) <= OverlapArg
           /\ IsScenario =>
                 /\ Len(last.ret) = 3
                 /\ \A i \in 1..Len(last.ret) : Len(last.ret[i]) <= SampleChunkSize

\* C14 amended: two consecutive chunks share at most chunk_overlap characters; a
\* text of 1050 characters with chunk_size 500 and chunk_overlap 50 gives chunks of
\* at most 500 characters, and when it has no whitespace in it exactly 3 of them,
\* the characters 1-500, 451-950 and 901-1050.
C14_OverlapBoundAndSlicedChunks ==
    (last.op = "split_text") =>
        LET places == PlacesOfLast
        IN /\ ChunksAt(places)
           /\ \A i \in 1..(Len(places) - 1) : Shared(places, i) <= OverlapArg
           /\ IsScenario =>
                 /\ \A i \in 1..Len(last.ret) : Len(last.ret[i]) <= SampleChunkSize
                 /\ (\A pos \in 1..Len(SplitArg) : SplitArg[pos] \notin Whitespace) =>
                       places = <<Piece(1, SampleChunkSize),
                                  Piece(SampleChunkSize - SampleChunkOverlap + 1,
                                        2 * SampleChunkSize - SampleChunkOverlap),
                                  Piece(2 * SampleChunkSize - 2 * SampleChunkOverlap + 1,
                                        ScenarioLen)>>

\* C14's case: the text of 1050 characters without whitespace split in 3 chunks that
\* share 50 characters
C14_Witness ==
    /\ last.op = "split_text"
    /\ IsScenario
    /\ \A pos \in 1..Len(SplitArg) : SplitArg[pos] \notin Whitespace
    /\ Len(last.ret) = 3
    /\ Shared(PlacesOfLast, 1) = SampleChunkOverlap

\* the entry add_documents makes of the i-th document
EntryOf(documents, i) ==
    [id        |-> DocId(documents, i),
     text      |-> documents[i].text,
     metadata  |-> DictGet(documents[i], "metadata", EmptyDict),
     embedding |-> Embed(documents[i].text)]

\* the documents whose id the collection does not hold yet, in input order
RECURSIVE NewEntries(_, _, _)
NewEntries(ents, documents, i) ==
    IF i > Len(documents) THEN <<>>
    ELSE (IF DocId(documents, i) \in EntryIds(ents) THEN <<>>
          ELSE <<EntryOf(documents, i)>>)
         \o NewEntries(ents, documents, i + 1)

\* C15: an add of n documents that returns has made exactly n embedding calls, the
\* i-th with the text of the i-th document, and then one collection.add; what it
\* persists is, for each document in input order, that document's own id, text,
\* metadata and embedding.  A query that returns has made exactly one embedding
\* call with the question, then one index lookup, then one chat call.
C15_CallsCountedAndInOrder ==
    /\ [](last.op = "add" /\ last.ok =>
            /\ Len(last.calls) = Len(last.args) + 1
            /\ \A i \in 1..Len(last.args) :
                  /\ last.calls[i].fn = "embed"
                  /\ last.calls[i].arg = last.args[i].text
                  /\ last.calls[i].ret = Embed(last.args[i].text)
            /\ last.calls[Len(last.calls)].fn = "add"
            /\ last.calls[Len(last.calls)].arg
                  = [i \in 1..Len(last.args) |-> DocId(last.args, i)])
    /\ [](last.op = "query" /\ last.ok =>
            /\ Len(last.calls) = 3
            /\ last.calls[1].fn = "embed" /\ last.calls[1].arg = last.args.question
            /\ last.calls[2].fn = "query" /\ last.calls[2].arg = last.args.n_results
            /\ last.calls[3].fn = "chat")
    /\ [][last'.op = "add" /\ last'.ok =>
            entries' = entries \o NewEntries(entries, last'.args, 1)]_vars

\* C15's case: two documents with different texts added and persisted
C15_Witness ==
    /\ last.op = "add"
    /\ last.ok
    /\ Len(last.args) = 2
    /\ last.args[1].text # last.args[2].text
    /\ Len(entries) = 2
    /\ \A i \in 1..2 : entries[i] = EntryOf(last.args, i)

\* C16: in main the document count is 0 at the moment add_documents(sample_docs)
\* is called, whatever the collection held when main started, and when the
\* interactive loop starts the collection holds exactly the sample documents.
C16_SamplesAddedToEmptyCollection ==
    /\ (run.prog = "main" /\ run.pc = "add") => Count = 0
    /\ (run.prog = "main" /\ run.pc = "loop") =>
          /\ Count = NumSampleDocs
          /\ entries = [i \in 1..NumSampleDocs |-> EntryOf(sample_docs, i)]

\* C16's case: main found documents in the collection when it started and has come
\* to its loop
C16_Witness ==
    /\ run.prog = "main"
    /\ run.pc = "loop"
    /\ run.found > 0
    /\ Len(entries) = NumSampleDocs

\* C17: a demo loads the sample documents if and only if the collection holds no
\* document when it starts, and a collection that holds documents is not changed by
\* a run of a demo: the samples are added at most once and later runs leave the
\* document count as it is.
C17_SamplesLoadedOnlyIntoEmpty ==
    /\ [][(run.pc = "info" /\ run'.pc # "crashed") =>
             (run'.pc = "load" <=> Count = 0)]_vars
    /\ [][Count > 0 => entries' = entries]_vars
    /\ [](Count \in {0, Len(load_sample_documents)})

\* C17's case: a second run, of a demo that found the samples of the first run and
\* went on without loading
C17_Witness ==
    /\ run.n >= 2
    /\ run.prog \in DemoPrograms
    /\ run.pc \in {"ask", "loop"}
    /\ run.found = Len(load_sample_documents)
    /\ Count = Len(load_sample_documents)

\* whether the line read at a prompt of prog is to be put to rag.query: it is a line
\* (not Ctrl-C), not empty once stripped, and not one of the commands in any casing
IsQuestion(prog, line) ==
    /\ line # Interrupt
    /\ Strip(line) # <<>>
    /\ Lower(Strip(line)) \notin {<<"q", "u", "i", "t">>, <<"e", "x", "i", "t">>, <<"q">>}
    /\ prog = "interactive_demo" => Lower(Strip(line)) # <<"i", "n", "f", "o">>

\* the questions among the lines read, stripped, in the order read
RECURSIVE QuestionsOf(_, _)
QuestionsOf(prog, read) ==
    IF read = <<>> THEN <<>>
    ELSE LET before == QuestionsOf(prog, SubSeq(read, 1, Len(read) - 1))
             line == read[Len(read)]
         IN IF IsQuestion(prog, line) THEN Append(before, Strip(line)) ELSE before

\* C18: in the interactive loops rag.query has been called exactly once, in order, for
\* each line read that is not empty once stripped and is not a command ('quit', 'exit',
\* 'q', and 'info' in interactive_demo, in any casing) and for no other line; a turn
\* of the loop that makes a query, failed or not, leaves the program at its prompt
\* with no exception raised and the collection as it was.
C18_QueryOncePerQuestion ==
    /\ [](run.prog \in LoopPrograms => run.asked = QuestionsOf(run.prog, run.read))
    /\ [][(run.pc = "loop" /\ Len(run'.asked) = Len(run.asked) + 1) =>
             /\ last'.op = "query"
             /\ run'.pc = "loop"
             /\ run'.error = run.error
             /\ entries' = entries
             /\ collUid' = collUid
             /\ handle' = handle]_vars

\* C18's case: interactive_demo has read the command Info and then a question, whose
\* query failed, and is at its prompt again
C18_Witness ==
    /\ run.prog = "interactive_demo"
    /\ run.pc = "loop"
    /\ run.read = << <<"I", "n", "f", "o">>, <<" ", "z", " ">> >>
    /\ run.asked = << <<"z">> >>
    /\ last.op = "query"
    /\ ~last.ok

\* C19: an interactive session whose input has ended comes to its end: no failure of
\* reading the input keeps the loop running.
C19_SessionTerminates ==
    (run.prog \in LoopPrograms /\ run.eof) ~> (run.pc \in Ended)

\* C20: what get_collection_info returns has the keys collection_name and
\* document_count, whether the count succeeded or not, and no program meets a
\* KeyError when it looks them up.
C20_InfoHasBothKeys ==
    /\ last.op = "info" => {"collection_name", "document_count"} \subseteq DOMAIN last.ret
    /\ run.error # "KeyError"

====
